---------------------------- MODULE Spec2Model ----------------------------
(***************************************************************************)
(* Django View Shortcuts: the faceted filters of view_shortcuts/filters.py *)
(* (facet, FilterList, Filter and its subclasses) and cached_property of   *)
(* view_shortcuts/decorators.py, as a state machine of one process that    *)
(* serves requests one after another (Spec); the choices of one Filter     *)
(* (SpecChoices); the render_to decorator (SpecRender); and threads of the *)
(* process that call Filter.resolve_field at the same time (SpecThreads).  *)
(*                                                                         *)
(* Strings are sequences of one-character strings, so that splitting a     *)
(* lookup on "__", percent-encoding a query string and parsing it again    *)
(* are computed character by character.                                    *)
(***************************************************************************)
EXTENDS Integers, Sequences, FiniteSets, TLC

VARIABLES
    _cached_fields,   \* Filter._cached_fields: the process-wide dict lookup -> field
    lists,            \* the FilterList instances alive in the current request
    ret,              \* what the last call or property access returned
    err,              \* the exception the last call raised ("none" if it returned)
    built,            \* the Filter instances built outside a FilterList
    render,           \* the view render_to decorates and the calls it has made
    threads           \* the threads inside Filter.resolve_field

vars == <<_cached_fields, lists, ret, err, built, render, threads>>

\* what the requests of Spec leave alone
apart == <<built, render, threads>>

(***************************************************************************)
(* Bounds                                                                  *)
(***************************************************************************)
MaxFacets == 2        \* longest facet list passed to FilterList
MaxCalls == 2         \* runs of one property's computation per instance
NumThreads == 2       \* threads of the process that serve requests at the same time

(***************************************************************************)
(* Python values                                                           *)
(***************************************************************************)
None == <<"None">>          \* Python's None (no string: strings hold single characters)

Truthy(v) == v # None /\ v # <<>>      \* "if value": None and '' are false

\* str.join of a sequence of strings with no separator
RECURSIVE Concat(_)
Concat(ss) == IF ss = <<>> THEN <<>> ELSE Head(ss) \o Concat(Tail(ss))

\* the strings of the model
s_author == <<"a","u","t","h","o","r">>
s_paid == <<"p","a","i","d">>
s_title == <<"t","i","t","l","e">>
s_name == <<"n","a","m","e">>
s_author__name == <<"a","u","t","h","o","r","_","_","n","a","m","e">>
s_p == <<"p">>
s_t == <<"t">>
s_s == <<"s">>
s_1 == <<"1">>
s_2 == <<"2">>
s_3 == <<"3">>
s_4 == <<"4">>
s_s1 == <<"s","1">>
s_s2 == <<"s","2">>
s_s3 == <<"s","3">>
s_True == <<"T","r","u","e">>
s_False == <<"F","a","l","s","e">>
s_John == <<"J","o","h","n">>
s_Mary == <<"M","a","r","y">>
s_joe == <<"j","o","e">>
s_JandM == <<"J","&","M">>
s_QA == <<"Q"," ","=","A">>
s_startswith == <<"s","t","a","r","t","s","w","i","t","h">>

LowerCase == <<"a","b","c","d","e","f","g","h","i","j","k","l","m",
               "n","o","p","q","r","s","t","u","v","w","x","y","z">>
UpperCase == <<"A","B","C","D","E","F","G","H","I","J","K","L","M",
               "N","O","P","Q","R","S","T","U","V","W","X","Y","Z">>
Digits == {"0","1","2","3","4","5","6","7","8","9"}

\* str.lower and str.upper
LowerChar(c) ==
    IF \E i \in DOMAIN UpperCase : UpperCase[i] = c
    THEN LowerCase[CHOOSE i \in DOMAIN UpperCase : UpperCase[i] = c] ELSE c
UpperChar(c) ==
    IF \E i \in DOMAIN LowerCase : LowerCase[i] = c
    THEN UpperCase[CHOOSE i \in DOMAIN LowerCase : LowerCase[i] = c] ELSE c
lower(s) == [i \in DOMAIN s |-> LowerChar(s[i])]
upper(s) == [i \in DOMAIN s |-> UpperChar(s[i])]

\* str.startswith
startswith(s, prefix) ==
    Len(prefix) <= Len(s) /\ SubSeq(s, 1, Len(prefix)) = prefix

\* lookup.split('__'): cut at every leftmost occurrence of two underscores
RECURSIVE split__(_)
split__(s) ==
    IF \E i \in 1..(Len(s) - 1) : s[i] = "_" /\ s[i + 1] = "_"
    THEN LET i == CHOOSE k \in 1..(Len(s) - 1) :
                      /\ s[k] = "_" /\ s[k + 1] = "_"
                      /\ \A j \in 1..(k - 1) : ~(s[j] = "_" /\ s[j + 1] = "_")
         IN  <<SubSeq(s, 1, i - 1)>> \o split__(SubSeq(s, i + 2, Len(s)))
    ELSE <<s>>

(***************************************************************************)
(* The models (entity types) and their rows.  Story and Author are the     *)
(* models of view_shortcuts/tests.py with the rows its doctest creates and *)
(* one more author, a second John who wrote nothing; Comment stands for a  *)
(* model of the calling project that also names a field "author", as a     *)
(* plain character field.                                                  *)
(***************************************************************************)
Models == {"Story", "Author", "Comment"}

\* a field of a model, as model._meta.get_field returns it
\* (rel: the model a relation field refers to, "None" for a plain field)
Field(model, name, type, rel) ==
    [model |-> model, name |-> name, type |-> type, rel |-> rel]

Fields ==
    [m \in Models |->
        CASE m = "Story" ->
               (s_title :> Field("Story", s_title, "CharField", "None"))
            @@ (s_author :> Field("Story", s_author, "ForeignKey", "Author"))
            @@ (s_paid :> Field("Story", s_paid, "BooleanField", "None"))
          [] m = "Author" ->
               (s_name :> Field("Author", s_name, "CharField", "None"))
          [] m = "Comment" ->
               (s_author :> Field("Comment", s_author, "CharField", "None"))
            @@ (s_title :> Field("Comment", s_title, "CharField", "None"))]

\* the tables: model -> primary key -> column -> value, every value as the
\* string the database compares a lookup value with
Rows ==
    [m \in Models |->
        CASE m = "Story" ->
               (s_1 :> (s_title :> s_s1 @@ s_author :> s_1 @@ s_paid :> s_True))
            @@ (s_2 :> (s_title :> s_s2 @@ s_author :> s_2 @@ s_paid :> s_False))
            @@ (s_3 :> (s_title :> s_s3 @@ s_author :> s_1 @@ s_paid :> s_True))
          [] m = "Author" ->
               (s_1 :> (s_name :> s_John))
            @@ (s_2 :> (s_name :> s_Mary))
            @@ (s_3 :> (s_name :> s_joe))
            @@ (s_4 :> (s_name :> s_John))
          [] m = "Comment" ->
               (s_1 :> (s_author :> s_JandM @@ s_title :> s_s1))
            @@ (s_2 :> (s_author :> s_joe @@ s_title :> s_QA))]

(***************************************************************************)
(* The queryset abstraction: a queryset is its model and the set of        *)
(* primary keys it selects.                                                *)
(***************************************************************************)
QuerySet(model, ids) == [model |-> model, ids |-> ids]

\* model.objects.all()
objects_all(model) == QuerySet(model, DOMAIN Rows[model])

\* qs1 & qs2
qs_and(qs1, qs2) == QuerySet(qs1.model, qs1.ids \cap qs2.ids)

\* int(value) succeeds
IsInt(v) == v # <<>> /\ \A i \in DOMAIN v : v[i] \in Digits

\* the exception qs.filter(**{lookup: value}) raises, "none" if it returns
qs_filter_error(qs, lookup, value) ==
    LET segs == split__(lookup)
        fs   == Fields[qs.model]
    IN  IF segs[1] \notin DOMAIN fs THEN "FieldError"
        ELSE LET f == fs[segs[1]]
             IN  IF f.rel # "None"
                 THEN IF Len(segs) = 1
                      THEN IF IsInt(value) THEN "none" ELSE "ValueError"
                      ELSE IF Len(segs) = 2 /\ segs[2] \in DOMAIN Fields[f.rel]
                           THEN "none" ELSE "FieldError"
                 ELSE IF Len(segs) = 1 \/ (Len(segs) = 2 /\ segs[2] = s_startswith)
                      THEN "none" ELSE "FieldError"

\* a row of qs.model satisfies lookup=value (lookup__startswith=value for a
\* plain field; the related row's attribute for relation__attribute)
row_matches(model, pk, lookup, value) ==
    LET segs == split__(lookup)
        f    == Fields[model][segs[1]]
        cell == Rows[model][pk][segs[1]]
    IN  IF f.rel # "None"
        THEN IF Len(segs) = 1 THEN cell = value
             ELSE Rows[f.rel][cell][segs[2]] = value
        ELSE IF Len(segs) = 1 THEN cell = value
             ELSE startswith(cell, value)

\* qs.filter(**{lookup: value}), where it raises nothing
qs_filter(qs, lookup, value) ==
    QuerySet(qs.model, {pk \in qs.ids : row_matches(qs.model, pk, lookup, value)})

\* qs.filter(Q(**{lookup: v1}) | Q(**{lookup: v2}))
qs_filter_or(qs, lookup, v1, v2) ==
    QuerySet(qs.model, {pk \in qs.ids : \/ row_matches(qs.model, pk, lookup, v1)
                                        \/ row_matches(qs.model, pk, lookup, v2)})

\* model._meta.get_field(name) raises FieldDoesNotExist
get_field_raises(model, name) == name \notin DOMAIN Fields[model]

\* model._meta.get_field(name)
get_field(model, name) == Fields[model][name]

(***************************************************************************)
(* Query strings: urllib's urlencode and the parsing of QUERY_STRING into  *)
(* request.GET.                                                            *)
(***************************************************************************)
\* the characters quote_plus leaves alone
Unreserved ==
    {LowerCase[i] : i \in DOMAIN LowerCase} \cup {UpperCase[i] : i \in DOMAIN UpperCase}
        \cup Digits \cup {"_", ".", "-", "~"}

\* the escapes of the reserved characters of the model
Escapes ==
    ("&" :> <<"%","2","6">>) @@ ("=" :> <<"%","3","D">>) @@ ("+" :> <<"%","2","B">>)
        @@ ("%" :> <<"%","2","5">>)

\* quote_plus(s)
quote_char(c) ==
    IF c \in Unreserved THEN <<c>>
    ELSE IF c = " " THEN <<"+">>
    ELSE Escapes[c]
quote_plus(s) == Concat([i \in DOMAIN s |-> quote_char(s[i])])

\* urlencode(pairs) of a list of (name, value) pairs
RECURSIVE urlencode(_)
urlencode(pairs) ==
    IF pairs = <<>> THEN <<>>
    ELSE LET one == quote_plus(pairs[1][1]) \o <<"=">> \o quote_plus(pairs[1][2])
         IN  IF Len(pairs) = 1 THEN one
             ELSE one \o <<"&">> \o urlencode(Tail(pairs))

\* s.split(sep) for a one-character separator
RECURSIVE split_char(_, _)
split_char(s, sep) ==
    IF \E i \in DOMAIN s : s[i] = sep
    THEN LET i == CHOOSE k \in DOMAIN s : s[k] = sep /\ \A j \in 1..(k - 1) : s[j] # sep
         IN  <<SubSeq(s, 1, i - 1)>> \o split_char(SubSeq(s, i + 1, Len(s)), sep)
    ELSE <<s>>

\* unquote_plus(s): '+' is a space, %XX the character it escapes
RECURSIVE unquote_plus(_)
unquote_plus(s) ==
    IF s = <<>> THEN <<>>
    ELSE IF s[1] = "+" THEN <<" ">> \o unquote_plus(Tail(s))
    ELSE IF /\ s[1] = "%" /\ Len(s) >= 3
            /\ \E c \in DOMAIN Escapes : Escapes[c] = SubSeq(s, 1, 3)
         THEN <<CHOOSE c \in DOMAIN Escapes : Escapes[c] = SubSeq(s, 1, 3)>>
                  \o unquote_plus(SubSeq(s, 4, Len(s)))
    ELSE <<s[1]>> \o unquote_plus(Tail(s))

\* parse_qsl(query, keep_blank_values=True): the (name, value) pairs in order
RECURSIVE parse_pieces(_)
parse_pieces(pieces) ==
    IF pieces = <<>> THEN <<>>
    ELSE LET piece == Head(pieces)
             nv    == split_char(piece, "=")
             name  == unquote_plus(nv[1])
             value == IF Len(nv) = 1 THEN <<>>
                      ELSE unquote_plus(SubSeq(piece, Len(nv[1]) + 2, Len(piece)))
         IN  IF piece = <<>> THEN parse_pieces(Tail(pieces))
             ELSE <<<<name, value>>>> \o parse_pieces(Tail(pieces))
parse_qsl(query) == parse_pieces(split_char(query, "&"))

\* the request whose QUERY_STRING is query; GET maps a name to its last value
HttpRequest(query) ==
    LET pairs == parse_qsl(query)
        names == {pairs[i][1] : i \in DOMAIN pairs}
        last(n) == CHOOSE i \in DOMAIN pairs :
                       pairs[i][1] = n /\ \A j \in DOMAIN pairs : pairs[j][1] = n => j <= i
    IN  [GET |-> [n \in names |-> pairs[last(n)][2]]]

\* mock_request(**kw)
mock_request(kw) == HttpRequest(urlencode(kw))

\* request.GET.get(param)
GET_get(request, param) ==
    IF param \in DOMAIN request.GET THEN request.GET[param] ELSE None

(***************************************************************************)
(* facet, Filter and its subclasses                                        *)
(***************************************************************************)
\* Filter._filter_specs after the module is loaded: Filter.register appends
\* in this order
_filter_specs == <<"RelationFilter", "BooleanFilter", "AllValuesFilter">>

FilterClasses ==
    {"Filter", "RelationFilter", "BooleanFilter", "AlphabeticFilter", "AllValuesFilter"}

\* facet(lookup, param, kind): param and kind may be omitted ("None")
facet(lookup, param, kind) ==
    [form   |-> "facet",
     lookup |-> lookup,
     param  |-> IF Truthy(param) THEN param ELSE lookup,
     kind   |-> IF kind # "None" THEN kind ELSE "Filter"]

\* the deprecated (lookup, param) tuple and the plain lookup string, as
\* records of the same shape (kind is unused)
facet_tuple(lookup, param) ==
    [form |-> "tuple", lookup |-> lookup, param |-> param, kind |-> "None"]
facet_str(lookup) ==
    [form |-> "str", lookup |-> lookup, param |-> None, kind |-> "None"]

\* <class>.suitable_for(field)
suitable_for(cls, field) ==
    CASE cls = "RelationFilter" -> field.rel # "None"
      [] cls = "BooleanFilter"  -> field.type = "BooleanField"
      [] OTHER                  -> TRUE

\* Filter.resolve_field(qs, lookup) with the dict cache as Filter._cached_fields:
\* whether it raises, the field it returns and the dict afterwards
resolve_field(cache, qs, lookup) ==
    IF lookup \notin DOMAIN cache
    THEN LET name == split__(lookup)[1]
         IN  IF get_field_raises(qs.model, name)
             THEN [err |-> "FieldDoesNotExist", field |-> None, cache |-> cache]
             ELSE LET f == get_field(qs.model, name)
                  IN  [err |-> "none", field |-> f, cache |-> (lookup :> f) @@ cache]
    ELSE [err |-> "none", field |-> cache[lookup], cache |-> cache]

\* Filter.__init__ that keeps the value of an active filter only
Filter__init__active_value(cls, cache, param, qs, lookup, value, active, sort_by_usage) ==
    LET r == resolve_field(cache, qs, lookup)
    IN  [err   |-> r.err,
         cache |-> r.cache,
         obj   |-> IF r.err # "none" THEN [cls |-> "None"]
                   ELSE [cls           |-> cls,
                         param         |-> param,
                         qs            |-> qs,
                         lookup        |-> lookup,
                         value         |-> IF active THEN value ELSE None,
                         active        |-> active,
                         sort_by_usage |-> sort_by_usage,
                         field         |-> r.field]]

\* <cls>(param, qs, lookup, value, active, sort_by_usage): Filter.__init__
Filter__init__(cls, cache, param, qs, lookup, value, active, sort_by_usage) ==
    LET r == resolve_field(cache, qs, lookup)
    IN  [err   |-> r.err,
         cache |-> r.cache,
         obj   |-> IF r.err # "none" THEN [cls |-> "None"]
                   ELSE [cls           |-> cls,
                         param         |-> param,
                         qs            |-> qs,
                         lookup        |-> lookup,
                         value         |-> value,
                         active        |-> active,
                         sort_by_usage |-> sort_by_usage,
                         field         |-> r.field]]

\* the first factory of specs that is suitable for field, "None" if none is
RECURSIVE first_suitable(_, _)
first_suitable(specs, field) ==
    IF specs = <<>> THEN "None"
    ELSE IF suitable_for(Head(specs), field) THEN Head(specs)
    ELSE first_suitable(Tail(specs), field)

\* <cls>.create(param, qs, lookup, value, active, sort_by_usage)
Filter_create(cls, cache, param, qs, lookup, value, active, sort_by_usage) ==
    IF cls # "Filter"
    THEN Filter__init__(cls, cache, param, qs, lookup, value, active, sort_by_usage)
    ELSE LET r == resolve_field(cache, qs, lookup)
         IN  IF r.err # "none"
             THEN [err |-> r.err, cache |-> r.cache, obj |-> [cls |-> "None"]]
             ELSE LET factory == first_suitable(_filter_specs, r.field)
                  IN  IF factory = "None"
                      THEN [err |-> "none", cache |-> r.cache, obj |-> [cls |-> "None"]]
                      ELSE Filter__init__(factory, r.cache, param, qs, lookup, value,
                                          active, sort_by_usage)

\* Filter.filter(qs) and AlphabeticFilter.filter(qs): the exception raised
Filter_filter_error(f, qs) ==
    IF f.cls = "AlphabeticFilter"
    THEN qs_filter_error(qs, f.lookup \o <<"_", "_">> \o s_startswith, f.value)
    ELSE qs_filter_error(qs, f.lookup, f.value)

\* Filter.filter(qs) and AlphabeticFilter.filter(qs)
Filter_filter(f, qs) ==
    IF f.cls = "AlphabeticFilter"
    THEN qs_filter_or(qs, f.lookup \o <<"_", "_">> \o s_startswith,
                      lower(f.value), upper(f.value))
    ELSE qs_filter(qs, f.lookup, f.value)

(***************************************************************************)
(* FilterList                                                              *)
(***************************************************************************)
\* descriptor with a facet's own parameter name ignored
descriptor_lookup_as_param(p) ==
    IF p.form = "facet"
    THEN [lookup |-> p.lookup, param |-> p.lookup, klass |-> p.kind]
    ELSE IF p.form = "tuple"
    THEN [lookup |-> p.lookup, param |-> p.param, klass |-> "Filter"]
    ELSE [lookup |-> p.lookup, param |-> p.lookup, klass |-> "Filter"]

\* the lookup, param and class one descriptor p of params stands for
descriptor(p) ==
    IF p.form = "facet"
    THEN [lookup |-> p.lookup, param |-> p.param, klass |-> p.kind]
    ELSE IF p.form = "tuple"
    THEN [lookup |-> p.lookup, param |-> p.param, klass |-> "Filter"]
    ELSE [lookup |-> p.lookup, param |-> p.lookup, klass |-> "Filter"]

\* is_triggered with single_triggered never consulted
is_triggered_any(value, single_triggered) == Truthy(value)

\* the active flag of the filter of one descriptor
is_triggered(value, single_triggered) == Truthy(value) /\ ~single_triggered

\* _generate_filters: the filters of params, given the filters made so far
RECURSIVE _generate_filters(_, _, _, _, _, _, _)
_generate_filters(cache, request, qs, params, single, single_triggered, made) ==
    IF params = <<>> THEN [err |-> "none", cache |-> cache, filters |-> made]
    ELSE LET d      == descriptor(Head(params))
             value  == GET_get(request, d.param)
             active == is_triggered(value, single_triggered)
             c      == Filter_create(d.klass, cache, d.param, qs, d.lookup, value,
                                     active, TRUE)
         IN  IF c.err # "none"
             THEN [err |-> c.err, cache |-> c.cache, filters |-> made]
             ELSE _generate_filters(c.cache, request, qs, Tail(params), single,
                                    single_triggered \/ (active /\ single),
                                    Append(made, c.obj))

\* FilterList(request, qs, params, single): the exception raised, the dict
\* Filter._cached_fields afterwards and the instance.  attrs holds the
\* instance attributes cached_property has set; calls counts, for each
\* property, the runs of its computation.
FilterList__init__(cache, request, qs, params, single) ==
    LET g == _generate_filters(cache, request, qs, params, single, FALSE, <<>>)
    IN  [err   |-> g.err,
         cache |-> g.cache,
         obj   |-> [_qs     |-> qs,
                    single  |-> single,
                    items   |-> g.filters,
                    request |-> request,
                    params  |-> params,
                    attrs   |-> <<>>,
                    calls   |-> [n \in {"active", "urlencode", "object_list",
                                        "clean_query"} |-> 0]]]

\* the instance attribute cached_property keeps the value of property name in
cache_key(name) ==
    CASE name = "active"      -> "_cache__active"
      [] name = "urlencode"   -> "_cache__urlencode"
      [] name = "object_list" -> "_cache__object_list"
      [] name = "clean_query" -> "_cache__clean_query"
      [] name = "choices"     -> "_cache__choices"

\* one more run of the computation of property name on self
ran(self, name) == [self EXCEPT !.calls[name] = @ + 1]

\* cached_property that returns what f computed and stores nothing
cached_property_no_store(name, self, computed) ==
    IF computed.err # "none"
    THEN [self |-> ran(computed.self, name), value |-> None, err |-> computed.err]
    ELSE [self |-> ran(computed.self, name), value |-> computed.value, err |-> "none"]

\* cached_property(f)._closure(self), for the property called name, where
\* computed is the outcome of f(self): the instance after the property
\* accesses f itself makes, the value f returns and the exception it raises
cached_property(name, self, computed) ==
    IF cache_key(name) \in DOMAIN self.attrs
    THEN [self |-> self, value |-> self.attrs[cache_key(name)], err |-> "none"]
    ELSE IF computed.err # "none"
    THEN [self |-> ran(computed.self, name), value |-> None, err |-> computed.err]
    ELSE [self  |-> [ran(computed.self, name)
                        EXCEPT !.attrs = (cache_key(name) :> computed.value) @@ @],
          value |-> computed.value,
          err   |-> "none"]

\* the body of FilterList.active
active_f(self) ==
    LET on == SelectSeq(self.items, LAMBDA f : f.active)
    IN  [self  |-> self,
         value |-> IF self.single
                   THEN (IF on = <<>> THEN <<>> ELSE <<Head(on)>>)
                   ELSE on,
         err   |-> "none"]

\* FilterList.active
FilterList_active(self) == cached_property("active", self, active_f(self))

\* urlencode_f over every filter that has a value, active or not
urlencode_f_all_values(self) ==
    LET a == FilterList_active(self)
        valued == SelectSeq(self.items, LAMBDA f : Truthy(f.value))
    IN  [self  |-> a.self,
         value |-> urlencode([i \in DOMAIN valued |->
                                  <<valued[i].param, valued[i].value>>]),
         err   |-> "none"]

\* urlencode_f naming each pair by the filter's lookup instead of its parameter
urlencode_f_by_lookup(self) ==
    LET a == FilterList_active(self)
    IN  [self  |-> a.self,
         value |-> urlencode([i \in DOMAIN a.value |->
                                  <<a.value[i].lookup, a.value[i].value>>]),
         err   |-> "none"]

\* the body of FilterList.urlencode
urlencode_f(self) ==
    LET a == FilterList_active(self)
    IN  [self  |-> a.self,
         value |-> urlencode([i \in DOMAIN a.value |->
                                  <<a.value[i].param, a.value[i].value>>]),
         err   |-> "none"]

\* FilterList.urlencode
FilterList_urlencode(self) == cached_property("urlencode", self, urlencode_f(self))

\* q = f.filter(q) for every f of filters in turn, until one raises
RECURSIVE apply_filters(_, _)
apply_filters(filters, q) ==
    IF filters = <<>> THEN [err |-> "none", q |-> q]
    ELSE LET e == Filter_filter_error(Head(filters), q)
         IN  IF e # "none" THEN [err |-> e, q |-> q]
             ELSE apply_filters(Tail(filters), Filter_filter(Head(filters), q))

\* clean_query started from the queryset the caller passed
clean_query_base_predefined(self) == self._qs

\* the queryset clean_query starts from
clean_query_base(self) == objects_all(self._qs.model)

\* clean_query_f applying every filter that has a value, active or not
clean_query_f_all_values(self) ==
    LET a == FilterList_active(self)
        r == apply_filters(SelectSeq(self.items, LAMBDA f : Truthy(f.value)),
                           clean_query_base(self))
    IN  [self |-> a.self, value |-> r.q, err |-> r.err]

\* the body of FilterList.clean_query
clean_query_f(self) ==
    LET a == FilterList_active(self)
        r == apply_filters(a.value, clean_query_base(self))
    IN  [self |-> a.self, value |-> r.q, err |-> r.err]

\* FilterList.clean_query
FilterList_clean_query(self) ==
    cached_property("clean_query", self, clean_query_f(self))

\* object_list_f without the intersection with the predefined queryset
object_list_f_clean_only(self) ==
    LET c == FilterList_clean_query(self)
    IN  [self |-> c.self, value |-> c.value, err |-> c.err]

\* the body of FilterList.object_list
object_list_f(self) ==
    LET c == FilterList_clean_query(self)
    IN  [self  |-> c.self,
         value |-> IF c.err = "none" THEN qs_and(self._qs, c.value) ELSE None,
         err   |-> c.err]

\* FilterList.object_list
FilterList_object_list(self) ==
    cached_property("object_list", self, object_list_f(self))

\* reading the property called name of a FilterList
getattr(self, name) ==
    CASE name = "active"      -> FilterList_active(self)
      [] name = "urlencode"   -> FilterList_urlencode(self)
      [] name = "object_list" -> FilterList_object_list(self)
      [] name = "clean_query" -> FilterList_clean_query(self)

Properties == {"active", "urlencode", "object_list", "clean_query"}

(***************************************************************************)
(* The inputs                                                              *)
(***************************************************************************)
\* the facet descriptors callers pass: a plain lookup string, a deprecated
\* tuple, a facet with the filter class left to Filter.create and a facet
\* that names its class
Descriptors ==
    {facet_str(s_author),
     facet_tuple(s_paid, s_p),
     facet(s_title, s_t, "None"),
     facet(s_title, s_t, "AlphabeticFilter")}

RECURSIVE SeqsUpTo(_, _)
SeqsUpTo(S, n) ==
    IF n = 0 THEN {<<>>}
    ELSE LET shorter == SeqsUpTo(S, n - 1)
         IN  shorter \cup {Append(q, x) : q \in {t \in shorter : Len(t) = n - 1}, x \in S}

FacetLists == SeqsUpTo(Descriptors, MaxFacets)

\* the keyword arguments of mock_request: for each parameter, the values a
\* request carries for it (None: the parameter is left out)
ParamValues ==
    <<  <<s_author, {None, <<>>, s_1, s_JandM}>>,
        <<s_p, {None}>>,
        <<s_t, {None, s_s}>>  >>

RECURSIVE Kwargs(_)
Kwargs(pv) ==
    IF pv = <<>> THEN {<<>>}
    ELSE {IF v = None THEN rest ELSE <<<<Head(pv)[1], v>>>> \o rest :
              v \in Head(pv)[2], rest \in Kwargs(Tail(pv))}

\* the querysets callers pass: a model's whole table or a part of it
BaseQuerysets ==
    {QuerySet("Story", ids) : ids \in {{s_1, s_2, s_3}, {s_1, s_2}}}
        \cup {QuerySet("Comment", {s_1, s_2})}

Lookups == {s_author, s_paid, s_title}

(***************************************************************************)
(* The state machine                                                       *)
(***************************************************************************)
Init ==
    /\ _cached_fields = <<>>
    /\ lists = <<>>
    /\ ret = [op |-> "start", value |-> None]
    /\ err = "none"
    /\ built = <<>>
    /\ render = <<>>
    /\ threads = <<>>

\* a view constructs FilterList(request, qs, params, single)
NewFilterList(kw, qs, params, single) ==
    /\ lists = <<>>
    /\ \E r \in {FilterList__init__(_cached_fields, mock_request(kw), qs, params, single)} :
           /\ _cached_fields' = r.cache
           /\ err' = r.err
           /\ lists' = IF r.err = "none" THEN <<r.obj>> ELSE <<>>
    /\ ret' = [op |-> "FilterList", value |-> None]
    /\ UNCHANGED apart

\* the view or its template reads a property of the FilterList
Access(name) ==
    /\ Len(lists) = 1
    /\ lists[1].calls[name] < MaxCalls
    /\ \E r \in {getattr(lists[1], name)} :
           /\ lists' = <<r.self>>
           /\ ret' = [op |-> name, value |-> r.value]
           /\ err' = r.err
    /\ UNCHANGED <<_cached_fields, apart>>

\* the links of the page lead to a request whose query string is the
\* urlencode of the FilterList; the same view builds its FilterList of that
\* request (kept beside the first one, to compare the two)
Rebuild ==
    /\ Len(lists) = 1
    /\ lists[1].attrs = <<>>
    /\ \E u \in {FilterList_urlencode(lists[1])} :
       \E r \in {FilterList__init__(_cached_fields, HttpRequest(u.value), lists[1]._qs,
                                   lists[1].params, lists[1].single)} :
           /\ r.err = "none"
           /\ _cached_fields' = r.cache
           /\ lists' = <<u.self, r.obj>>
    /\ ret' = [op |-> "FilterList", value |-> None]
    /\ err' = "none"
    /\ UNCHANGED apart

\* the view builds a second FilterList of the same request and facets over
\* another queryset of the same model, before it reads either
Rebase(qs) ==
    /\ Len(lists) = 1
    /\ lists[1].attrs = <<>>
    /\ qs.model = lists[1]._qs.model
    /\ qs # lists[1]._qs
    /\ \E r \in {FilterList__init__(_cached_fields, lists[1].request, qs,
                                   lists[1].params, lists[1].single)} :
           /\ r.err = "none"
           /\ _cached_fields' = r.cache
           /\ lists' = <<lists[1], r.obj>>
    /\ ret' = [op |-> "FilterList", value |-> None]
    /\ err' = "none"
    /\ UNCHANGED apart

\* the response is sent: the FilterLists of the request are dropped
Discard ==
    /\ lists # <<>>
    /\ lists' = <<>>
    /\ ret' = [op |-> "start", value |-> None]
    /\ err' = "none"
    /\ UNCHANGED <<_cached_fields, apart>>

\* between two requests, any code calls Filter.resolve_field(qs, lookup)
\* with qs = model.objects.all()
ResolveField(model, lookup) ==
    /\ lists = <<>>
    /\ \E r \in {resolve_field(_cached_fields, objects_all(model), lookup)} :
           /\ _cached_fields' = r.cache
           /\ ret' = [op |-> "resolve_field", value |-> r.field, model |-> model,
                       lookup |-> lookup]
           /\ err' = r.err
    /\ UNCHANGED <<lists, apart>>

Next ==
    \/ \E kw \in Kwargs(ParamValues), qs \in BaseQuerysets, params \in FacetLists,
          single \in BOOLEAN : NewFilterList(kw, qs, params, single)
    \/ \E name \in Properties : Access(name)
    \/ Rebuild
    \/ \E qs \in BaseQuerysets : Rebase(qs)
    \/ Discard
    \/ \E model \in {"Story", "Comment"}, lookup \in Lookups : ResolveField(model, lookup)

Spec == Init /\ [][Next]_vars

(***************************************************************************)
(* Properties                                                              *)
(***************************************************************************)
\* the parameter name descriptor p asks for
ExpectedParam(p) == IF p.form = "str" THEN p.lookup ELSE p.param

\* the (parameter, value) pairs of a list of filters
Pairs(filters) == [i \in DOMAIN filters |-> <<filters[i].param, filters[i].value>>]

\* the value the request of fl carries for the parameter of its i-th descriptor
RequestValue(fl, i) == GET_get(fl.request, ExpectedParam(fl.params[i]))

\* the request of fl carries the parameter of its i-th descriptor at all
RequestHas(fl, i) == ExpectedParam(fl.params[i]) \in DOMAIN fl.request.GET

\* the second FilterList was built from the urlencode of the first
Rebuilt == Len(lists) = 2 /\ lists[2]._qs = lists[1]._qs

\* the second FilterList was built over another queryset than the first
Rebased == Len(lists) = 2 /\ lists[2]._qs # lists[1]._qs

\* C1: a constructed FilterList holds exactly one Filter per facet descriptor,
\* in the order of the descriptors, and the filter at position i carries the
\* parameter name and the lookup of descriptor i.
C1_OneFilterPerDescriptor ==
    \A k \in DOMAIN lists :
        /\ Len(lists[k].items) = Len(lists[k].params)
        /\ \A i \in DOMAIN lists[k].params :
              /\ lists[k].items[i].cls \in FilterClasses \ {"Filter"}
              /\ lists[k].items[i].param = ExpectedParam(lists[k].params[i])
              /\ lists[k].items[i].lookup = lists[k].params[i].lookup

\* a FilterList of a string, a tuple and a facet descriptor was constructed
C1_Witness ==
    \E k \in DOMAIN lists :
        /\ Len(lists[k].items) = 2
        /\ lists[k].params[1].form = "tuple"
        /\ lists[k].params[2].form = "facet"
        /\ lists[k].items[1].param = s_p
        /\ lists[k].items[2].param = s_t

\* C2 as stated: in single mode at most one filter is active, and it is the
\* first facet in declaration order whose parameter is present in the request.
C2_SingleFirstPresent ==
    \A k \in DOMAIN lists :
        lists[k].single =>
            \A i \in DOMAIN lists[k].items :
                lists[k].items[i].active <=>
                    /\ RequestHas(lists[k], i)
                    /\ \A j \in 1..(i - 1) : ~RequestHas(lists[k], j)

\* C2 amended: in single mode at most one filter is active, and it is the
\* first facet in declaration order whose parameter has a non-empty value in
\* the request; the active property, once read, holds that filter alone.
C2_SingleFirstNonEmpty ==
    \A k \in DOMAIN lists :
        lists[k].single =>
            /\ \A i \in DOMAIN lists[k].items :
                  lists[k].items[i].active <=>
                      /\ Truthy(RequestValue(lists[k], i))
                      /\ \A j \in 1..(i - 1) : ~Truthy(RequestValue(lists[k], j))
            /\ Cardinality({i \in DOMAIN lists[k].items : lists[k].items[i].active}) <= 1
            /\ "_cache__active" \in DOMAIN lists[k].attrs =>
                  lists[k].attrs["_cache__active"] =
                      SelectSeq(lists[k].items, LAMBDA f : f.active)

\* a single-mode FilterList whose two facets both have a value in the request:
\* the first is active, the second is not, and active was read
C2_Witness ==
    /\ Len(lists) = 1
    /\ lists[1].single
    /\ Len(lists[1].items) = 2
    /\ Truthy(lists[1].items[1].value) /\ Truthy(lists[1].items[2].value)
    /\ lists[1].items[1].active /\ ~lists[1].items[2].active
    /\ "_cache__active" \in DOMAIN lists[1].attrs
    /\ Len(lists[1].attrs["_cache__active"]) = 1

\* C3: the FilterList built, with the same facets and single flag, from the
\* request whose query string is the urlencode of a FilterList has the same
\* active filters as that FilterList: same parameters, same values, same order.
C3_UrlencodeRoundTrip ==
    Rebuilt =>
        /\ lists[2].request = HttpRequest(lists[1].attrs["_cache__urlencode"])
        /\ Pairs(FilterList_active(lists[2]).value)
               = Pairs(lists[1].attrs["_cache__active"])

\* a FilterList with two active filters, one of a value that needs escaping,
\* was rebuilt from its urlencode
C3_Witness ==
    /\ Rebuilt
    /\ Len(lists[1].attrs["_cache__active"]) = 2
    /\ lists[1].attrs["_cache__active"][1].value = s_JandM
    /\ lists[1].attrs["_cache__active"][2].value = s_s

\* C4: FilterList.urlencode encodes the (parameter, value) pairs of exactly
\* the filters marked active, one pair each and in facet order: parsed as a
\* query string, it gives back those pairs.
C4_UrlencodeOfActive ==
    \A k \in DOMAIN lists :
        "_cache__urlencode" \in DOMAIN lists[k].attrs =>
            parse_qsl(lists[k].attrs["_cache__urlencode"])
                = Pairs(SelectSeq(lists[k].items, LAMBDA f : f.active))

\* urlencode was read on a single-mode FilterList with an active filter and
\* an inactive filter that has a value
C4_Witness ==
    /\ Len(lists) = 1
    /\ "_cache__urlencode" \in DOMAIN lists[1].attrs
    /\ lists[1].attrs["_cache__urlencode"] # <<>>
    /\ \E i \in DOMAIN lists[1].items :
          ~lists[1].items[i].active /\ Truthy(lists[1].items[i].value)
\* the rows of model that the restriction of filter f alone selects
Restriction(f, model) == Filter_filter(f, objects_all(model)).ids

\* the rows of the model of fl that every active filter of fl selects
ActiveRows(fl) ==
    {pk \in DOMAIN Rows[fl._qs.model] :
        \A i \in DOMAIN fl.items :
            fl.items[i].active => pk \in Restriction(fl.items[i], fl._qs.model)}

\* C5: clean_query is the set of all rows of the base queryset's model that
\* the restriction of every active filter (and of no inactive one) selects,
\* and object_list is the intersection of the base queryset with clean_query.
C5_ObjectListIsIntersection ==
    \A k \in DOMAIN lists :
        /\ "_cache__clean_query" \in DOMAIN lists[k].attrs =>
              lists[k].attrs["_cache__clean_query"]
                  = QuerySet(lists[k]._qs.model, ActiveRows(lists[k]))
        /\ "_cache__object_list" \in DOMAIN lists[k].attrs =>
              lists[k].attrs["_cache__object_list"]
                  = QuerySet(lists[k]._qs.model,
                             lists[k]._qs.ids \cap ActiveRows(lists[k]))

\* object_list was read on a FilterList over a pre-restricted queryset with an
\* active filter and an inactive filter that has a value; it differs from
\* both the base queryset and clean_query
C5_Witness ==
    /\ Len(lists) = 1
    /\ "_cache__object_list" \in DOMAIN lists[1].attrs
    /\ lists[1].attrs["_cache__object_list"].ids = {s_1}
    /\ lists[1]._qs.ids = {s_1, s_2}
    /\ lists[1].attrs["_cache__clean_query"].ids = {s_1, s_3}
    /\ \E i \in DOMAIN lists[1].items :
          ~lists[1].items[i].active /\ Truthy(lists[1].items[i].value)

\* C6: with no active filter, object_list holds exactly the rows of the base
\* queryset, whatever restriction the caller applied to it.
C6_NoActiveKeepsBase ==
    \A k \in DOMAIN lists :
        ("_cache__object_list" \in DOMAIN lists[k].attrs
             /\ \A i \in DOMAIN lists[k].items : ~lists[k].items[i].active)
        => lists[k].attrs["_cache__object_list"] = lists[k]._qs

\* object_list was read on a FilterList over a pre-restricted queryset whose
\* facets have no value or an empty one in the request
C6_Witness ==
    /\ Len(lists) = 1
    /\ "_cache__object_list" \in DOMAIN lists[1].attrs
    /\ lists[1]._qs = QuerySet("Story", {s_1, s_2})
    /\ Len(lists[1].items) = 2
    /\ lists[1].items[1].value = <<>>
    /\ \A i \in DOMAIN lists[1].items : ~lists[1].items[i].active

\* C7: two FilterLists of the same request and facets over differently
\* restricted querysets of one model have the same clean_query.
C7_CleanQueryIgnoresBase ==
    Rebased =>
        /\ FilterList_clean_query(lists[1]).err = FilterList_clean_query(lists[2]).err
        /\ FilterList_clean_query(lists[1]).err = "none" =>
              FilterList_clean_query(lists[1]).value
                  = FilterList_clean_query(lists[2]).value

\* two FilterLists of one request with an active filter over two querysets:
\* their object_list differs, their clean_query is not empty
C7_Witness ==
    /\ Rebased
    /\ \E i \in DOMAIN lists[1].items : lists[1].items[i].active
    /\ FilterList_object_list(lists[1]).err = "none"
    /\ FilterList_object_list(lists[2]).err = "none"
    /\ FilterList_object_list(lists[1]).value.ids
           # FilterList_object_list(lists[2]).value.ids
    /\ FilterList_clean_query(lists[1]).value.ids # {}

\* C8 as stated: the computation of each property runs at most once per
\* instance.
C8_RunsAtMostOnce ==
    \A k \in DOMAIN lists : \A name \in Properties : lists[k].calls[name] <= 1

\* an access that returned has stored the value it returned
C8_ReturnsStored ==
    (Len(lists) = 1 /\ ret.op \in Properties /\ err = "none") =>
        /\ cache_key(ret.op) \in DOMAIN lists[1].attrs
        /\ lists[1].attrs[cache_key(ret.op)] = ret.value

\* a stored value stays as it is and its computation does not run again
C8_StoredIsKept ==
    \A name \in Properties :
        (lists # <<>> /\ lists' # <<>> /\ cache_key(name) \in DOMAIN lists[1].attrs) =>
            /\ cache_key(name) \in DOMAIN lists'[1].attrs
            /\ lists'[1].attrs[cache_key(name)] = lists[1].attrs[cache_key(name)]
            /\ lists'[1].calls[name] = lists[1].calls[name]

\* C8 amended: each property is memoized per instance: an access that returns
\* has stored the value it returns, and from then on every access returns
\* that stored value without running the computation again, so at most one
\* computation per property completes; a computation that raises stores
\* nothing and runs again at the next access.
C8_Memoized == []C8_ReturnsStored /\ [][C8_StoredIsKept]_vars

\* all four properties have been read and stored, each computed once although
\* urlencode, clean_query and object_list read one another
C8_Witness ==
    /\ Len(lists) = 1
    /\ \A name \in Properties :
          /\ cache_key(name) \in DOMAIN lists[1].attrs
          /\ lists[1].calls[name] = 1
    /\ lists[1].attrs["_cache__active"] # <<>>

\* the field the model of the queryset of filter f defines for its lookup
ActualField(f) == get_field(f.qs.model, split__(f.lookup)[1])

\* the registered subclass meant for a field
ExpectedClass(field) ==
    IF field.rel # "None" THEN "RelationFilter"
    ELSE IF field.type = "BooleanField" THEN "BooleanFilter"
    ELSE "AllValuesFilter"

\* C9: Filter.create instantiates the requested subclass when one is given;
\* otherwise a relation field gets a RelationFilter, a boolean field a
\* BooleanFilter and any other field an AllValuesFilter, and never nothing.
C9_CreateSelectsByField ==
    \A k \in DOMAIN lists : \A i \in DOMAIN lists[k].items :
        /\ lists[k].items[i].cls # "None"
        /\ IF lists[k].params[i].form = "facet" /\ lists[k].params[i].kind # "Filter"
           THEN lists[k].items[i].cls = lists[k].params[i].kind
           ELSE ~get_field_raises(lists[k]._qs.model, split__(lists[k].items[i].lookup)[1])
                    => lists[k].items[i].cls = ExpectedClass(ActualField(lists[k].items[i]))

\* C10: resolve_field(qs, lookup) returns the field that the model of qs
\* defines for the first segment of lookup (and raises when there is none),
\* as it does with an empty cache, whatever was resolved before.
C10_CacheIsTransparent ==
    ret.op = "resolve_field" =>
        /\ err = resolve_field(<<>>, objects_all(ret.model), ret.lookup).err
        /\ err = "none" =>
              ret.value = get_field(ret.model, split__(ret.lookup)[1])

\* C11: a Filter is never constructed for a lookup whose first segment is not
\* a field of the model of its queryset (the construction raises the lookup
\* error instead), whatever filters were constructed before in the process.
C11_UnknownFieldFails ==
    \A k \in DOMAIN lists : \A i \in DOMAIN lists[k].items :
        ~get_field_raises(lists[k]._qs.model, split__(lists[k].items[i].lookup)[1])

(***************************************************************************)
(* The choices of a Filter                                                 *)
(***************************************************************************)
s_author__name__name ==
    <<"a","u","t","h","o","r","_","_","n","a","m","e","_","_","n","a","m","e">>
s_None == <<"N","o","n","e">>
s_yes == <<"y","e","s">>
s_no == <<"n","o">>
s_j == <<"j">>

\* the characters of the model in the order of their code points
Ascii ==
    <<" ", "%", "&", "+", "-", ".">>
        \o <<"0","1","2","3","4","5","6","7","8","9">> \o <<"=">>
        \o UpperCase \o <<"_">> \o LowerCase \o <<"~">>

\* the place of a character in that order
ord(c) == CHOOSE i \in DOMAIN Ascii : Ascii[i] = c

\* int(s) of a string of digits
RECURSIVE int_of(_)
int_of(s) ==
    IF Len(s) = 1 THEN ord(s[1]) - ord("0")
    ELSE int_of(SubSeq(s, 1, Len(s) - 1)) * 10 + (ord(s[Len(s)]) - ord("0"))

\* str(v) of None or of a string
str(v) == IF v = None THEN s_None ELSE v

\* the elements of the finite set S in ascending order of key, a function
\* that gives every element a number of its own
SortBy(S, key) ==
    CHOOSE q \in [1..Cardinality(S) -> S] :
        \A i, j \in 1..Cardinality(S) : i < j => key[q[i]] < key[q[j]]

\* the value a row has for lookup: its own column, or the column of the row
\* its relation refers to
cell(model, pk, lookup) ==
    LET segs == split__(lookup)
        own  == Rows[model][pk][segs[1]]
    IN  IF Len(segs) = 1 THEN own
        ELSE Rows[Fields[model][segs[1]].rel][own][segs[2]]

\* the exception qs.values(lookup) raises when it is evaluated
values_error(qs, lookup) ==
    LET segs == split__(lookup)
        fs   == Fields[qs.model]
    IN  IF segs[1] \notin DOMAIN fs THEN "FieldError"
        ELSE IF Len(segs) = 1 THEN "none"
        ELSE IF /\ Len(segs) = 2
                /\ fs[segs[1]].rel # "None"
                /\ segs[2] \in DOMAIN Fields[fs[segs[1]].rel]
             THEN "none" ELSE "FieldError"

\* FilterChoice(filter, title, value, items_count): the filter is the one
\* that holds the choice; the value keeps its Python type beside its text;
\* attrs holds the attributes cached_property has set
FilterChoice(title, type, value, items_count) ==
    [title       |-> title,
     value       |-> [type |-> type, repr |-> value],
     items_count |-> items_count,
     attrs       |-> <<>>]

\* choice_base narrowed by the filter's own value when the filter is active
choice_base_filtered(f) ==
    IF f.active /\ Filter_filter_error(f, f.qs) = "none"
    THEN Filter_filter(f, f.qs) ELSE f.qs

\* the queryset generate_choices counts in
choice_base(f) == f.qs

\* the place of a group of count rows, the first of them the row first, in
\* the result of _annotate: most used first when sort_by_usage, and in the
\* order of the rows otherwise and among equally used groups (an order the
\* database is free to choose; the model fixes this one)
usage_key(f, model, count, first) ==
    LET n == Cardinality(DOMAIN Rows[model])
    IN  IF f.sort_by_usage THEN (n - count) * (n + 1) + int_of(first)
        ELSE int_of(first)

\* the least of a set of primary keys
first_pk(pks) == CHOOSE pk \in pks : \A other \in pks : int_of(pk) <= int_of(other)

\* self._annotate(self.qs.values(self.lookup).distinct()): one entry for
\* each distinct value, with the number of rows that have it
values_annotate(f) ==
    LET base   == choice_base(f)
        rows(v) == {pk \in base.ids : cell(base.model, pk, f.lookup) = v}
        groups == {[value       |-> v,
                    items_count |-> Cardinality(rows(v)),
                    first       |-> first_pk(rows(v))] :
                       v \in {cell(base.model, pk, f.lookup) : pk \in base.ids}}
    IN  SortBy(groups,
               [g \in groups |-> usage_key(f, base.model, g.items_count, g.first)])

\* the related rows RelationFilter.generate_choices iterates: the rows of
\* the related model that a row of the queryset refers to, with the number
\* of the rows that do
related_annotate(f) ==
    LET base    == choice_base(f)
        rows(a) == {pk \in base.ids : Rows[base.model][pk][f.field.name] = a}
        groups  == {[pk |-> a, items_count |-> Cardinality(rows(a))] :
                       a \in {a \in DOMAIN Rows[f.field.rel] : rows(a) # {}}}
    IN  SortBy(groups,
               [g \in groups |-> usage_key(f, f.field.rel, g.items_count, g.pk)])

\* str(c) of a row of the related model: its name
related_str(model, pk) == Rows[model][pk][s_name]

\* RelationFilter.generate_choices
RelationFilter_generate_choices(f) ==
    IF f.field.rel = "None"
    THEN [err |-> "AttributeError", value |-> <<>>]
    ELSE LET related == related_annotate(f)
             segs    == split__(f.lookup)
         IN  IF related = <<>> THEN [err |-> "none", value |-> <<>>]
             ELSE IF Len(segs) > 2 THEN [err |-> "ValueError", value |-> <<>>]
             ELSE IF Len(segs) = 2 /\ segs[2] \notin DOMAIN Fields[f.field.rel]
             THEN [err |-> "AttributeError", value |-> <<>>]
             ELSE [err   |-> "none",
                   value |-> [i \in DOMAIN related |->
                       IF Len(segs) = 2
                       THEN FilterChoice(related_str(f.field.rel, related[i].pk), "str",
                                         Rows[f.field.rel][related[i].pk][segs[2]],
                                         related[i].items_count)
                       ELSE FilterChoice(related_str(f.field.rel, related[i].pk), "int",
                                         related[i].pk, related[i].items_count)]]

\* BooleanFilter.generate_choices
BooleanFilter_generate_choices(f) ==
    IF values_error(f.qs, f.lookup) # "none"
    THEN [err |-> values_error(f.qs, f.lookup), value |-> <<>>]
    ELSE LET choices == values_annotate(f)
             of(val) == SelectSeq(choices, LAMBDA c : str(c.value) = val)
             yes     == of(s_True)
             no      == of(s_False)
         IN  [err   |-> "none",
              value |-> [i \in DOMAIN yes |->
                            FilterChoice(s_yes, "str", s_True, yes[i].items_count)]
                        \o [i \in DOMAIN no |->
                            FilterChoice(s_no, "str", s_False, no[i].items_count)]]

\* AlphabeticFilter.generate_choices
AlphabeticFilter_generate_choices(f) ==
    IF values_error(f.qs, f.lookup) # "none"
    THEN [err |-> values_error(f.qs, f.lookup), value |-> <<>>]
    ELSE LET choices == values_annotate(f)
             char(c) == LowerChar(str(c.value)[1])
             keys    == {char(choices[i]) : i \in DOMAIN choices}
             chars   == [k \in keys |->
                            Cardinality({i \in DOMAIN choices : char(choices[i]) = k})]
             sorted  == SortBy(keys, [k \in keys |-> ord(k)])
         IN  IF \E i \in DOMAIN choices : str(choices[i].value) = <<>>
             THEN [err |-> "IndexError", value |-> <<>>]
             ELSE [err   |-> "none",
                   value |-> [i \in DOMAIN sorted |->
                       FilterChoice(<<UpperChar(sorted[i])>>, "str", <<sorted[i]>>,
                                    chars[sorted[i]])]]

\* AllValuesFilter.generate_choices, for a field without explicit choices
AllValuesFilter_generate_choices(f) ==
    IF values_error(f.qs, f.lookup) # "none"
    THEN [err |-> values_error(f.qs, f.lookup), value |-> <<>>]
    ELSE LET choices == values_annotate(f)
         IN  [err   |-> "none",
              value |-> [i \in DOMAIN choices |->
                  FilterChoice(str(choices[i].value), "str", str(choices[i].value),
                               choices[i].items_count)]]

\* list(self.generate_choices()), the body of Filter.choices
choices_f(f) ==
    LET g == CASE f.cls = "RelationFilter"   -> RelationFilter_generate_choices(f)
               [] f.cls = "BooleanFilter"    -> BooleanFilter_generate_choices(f)
               [] f.cls = "AlphabeticFilter" -> AlphabeticFilter_generate_choices(f)
               [] f.cls = "AllValuesFilter"  -> AllValuesFilter_generate_choices(f)
    IN  [self |-> f, value |-> g.value, err |-> g.err]

\* Filter.choices
Filter_choices(f) == cached_property("choices", f, choices_f(f))

\* type(self.value)(self.filter.value): the exception the conversion raises
convert_error(type, v) ==
    IF type = "int"
    THEN IF v = None THEN "TypeError"
         ELSE IF IsInt(v) THEN "none" ELSE "ValueError"
    ELSE "none"

\* self.value == type(self.value)(self.filter.value), where nothing is raised
equals_converted(value, v) ==
    IF value.type = "int" THEN int_of(value.repr) = int_of(v)
    ELSE value.repr = str(v)

\* the body of FilterChoice.active for a choice c of filter f: a TypeError
\* is caught (and bound to the name ValueError), nothing else is
active_choice_f(f, c) ==
    LET e == convert_error(c.value.type, f.value)
    IN  IF e = "TypeError" THEN [err |-> "none", value |-> FALSE]
        ELSE IF e # "none" THEN [err |-> e, value |-> FALSE]
        ELSE [err |-> "none", value |-> equals_converted(c.value, f.value)]

\* FilterChoice.active, a cached_property of the choice: the choice
\* afterwards, the value returned and the exception raised
FilterChoice_active(f, c) ==
    IF "_cache__active" \in DOMAIN c.attrs
    THEN [self |-> c, value |-> c.attrs["_cache__active"], err |-> "none"]
    ELSE LET r == active_choice_f(f, c)
         IN  IF r.err # "none" THEN [self |-> c, value |-> FALSE, err |-> r.err]
             ELSE [self  |-> [c EXCEPT !.attrs = ("_cache__active" :> r.value) @@ @],
                   value |-> r.value,
                   err   |-> "none"]

\* the querysets and lookups a filter is built over: every lookup names a
\* field of the model; the last one has three segments
ChoiceInputs ==
    {<<QuerySet("Story", ids), lookup>> :
         ids \in {{s_1, s_2, s_3}, {s_1, s_2}, {}},
         lookup \in {s_author, s_author__name, s_author__name__name, s_title, s_paid}}
      \cup {<<QuerySet("Author", ids), s_name>> : ids \in {{s_1, s_2, s_3, s_4}, {}}}

\* the values a request carries for the parameter of the filter
ChoiceValues == {None, <<>>, s_1, s_j, s_JandM}

\* a Filter as a view holds it: with the attributes cached_property has set
\* and the runs of the computation of its choices
instance(obj) == [field \in DOMAIN obj \cup {"attrs", "calls"} |->
                     IF field = "attrs" THEN <<>>
                     ELSE IF field = "calls" THEN [n \in {"choices"} |-> 0]
                     ELSE obj[field]]

InitChoices ==
    /\ _cached_fields = <<>>
    /\ lists = <<>>
    /\ ret = [op |-> "start", value |-> None]
    /\ err = "none"
    /\ built = <<>>
    /\ render = <<>>
    /\ threads = <<>>

\* a view calls <cls>.create(param, qs, lookup, value, active, sort_by_usage)
\* with the value its request carries for param
BuildFilter(cls, qs, lookup, value, active, sort_by_usage) ==
    /\ built = <<>>
    /\ active => Truthy(value)
    /\ \E r \in {Filter_create(cls, _cached_fields, lookup, qs, lookup, value, active,
                              sort_by_usage)} :
           /\ _cached_fields' = r.cache
           /\ err' = r.err
           /\ built' = IF r.err = "none" THEN <<instance(r.obj)>> ELSE <<>>
    /\ ret' = [op |-> "create", value |-> None]
    /\ UNCHANGED <<lists, render, threads>>

\* the view of another request creates the same filter with the value that
\* request carries (kept beside the first one, to compare the two)
BuildAgain(value, active) ==
    /\ Len(built) = 1
    /\ built[1].attrs = <<>>
    /\ built[1].calls["choices"] = 0
    /\ active => Truthy(value)
    /\ value # built[1].value
    /\ \E r \in {Filter_create(built[1].cls, _cached_fields, built[1].param, built[1].qs,
                              built[1].lookup, value, active, built[1].sort_by_usage)} :
           /\ r.err = "none"
           /\ _cached_fields' = r.cache
           /\ built' = Append(built, instance(r.obj))
    /\ ret' = [op |-> "create", value |-> None]
    /\ err' = "none"
    /\ UNCHANGED <<lists, render, threads>>

\* the template reads the choices of the i-th filter
Choices(i) ==
    /\ i \in DOMAIN built
    /\ built[i].calls["choices"] < MaxCalls
    /\ \E r \in {Filter_choices(built[i])} :
           /\ built' = [built EXCEPT ![i] = r.self]
           /\ ret' = [op |-> "choices", value |-> r.value]
           /\ err' = r.err
    /\ UNCHANGED <<_cached_fields, lists, render, threads>>

\* the template reads active of the j-th choice of the filter (as
\* get_active_choices does for every choice)
ChoiceActive(j) ==
    /\ Len(built) = 1
    /\ "_cache__choices" \in DOMAIN built[1].attrs
    /\ j \in DOMAIN built[1].attrs["_cache__choices"]
    /\ \E r \in {FilterChoice_active(built[1], built[1].attrs["_cache__choices"][j])} :
           /\ built' = [built EXCEPT ![1].attrs["_cache__choices"][j] = r.self]
           /\ ret' = [op |-> "active", value |-> None, choice |-> j, active |-> r.value]
           /\ err' = r.err
    /\ UNCHANGED <<_cached_fields, lists, render, threads>>

NextChoices ==
    \/ \E cls \in FilterClasses, input \in ChoiceInputs, value \in ChoiceValues,
          active, sort_by_usage \in BOOLEAN :
           BuildFilter(cls, input[1], input[2], value, active, sort_by_usage)
    \/ \E value \in ChoiceValues, active \in BOOLEAN : BuildAgain(value, active)
    \/ \E i \in 1..2 : Choices(i)
    \/ \E j \in 1..Cardinality(UNION {DOMAIN Rows[m] : m \in Models}) : ChoiceActive(j)

SpecChoices == InitChoices /\ [][NextChoices]_vars

\* the choices of the i-th filter have been computed and stored
HasChoices(i) == i \in DOMAIN built /\ "_cache__choices" \in DOMAIN built[i].attrs

\* the stored choices of the i-th filter
ChoicesOf(i) == built[i].attrs["_cache__choices"]

\* C12: a RelationFilter whose lookup has more than two segments never
\* yields a choice list: reading its choices raises the value error, over
\* every base queryset.
C12_LongLookupFails ==
    \A i \in DOMAIN built :
        (built[i].cls = "RelationFilter" /\ Len(split__(built[i].lookup)) > 2) =>
            /\ ~HasChoices(i)
            /\ (ret.op = "choices" /\ Len(built) = 1) => err = "ValueError"

\* C13: reading active of a choice never raises; it is true exactly when the
\* filter's value converts to the type of the choice's value and the
\* converted value equals the choice's value.
C13_ActiveNeverRaises ==
    ret.op = "active" =>
        /\ err = "none"
        /\ ret.active <=>
              /\ convert_error(ChoicesOf(1)[ret.choice].value.type, built[1].value) = "none"
              /\ equals_converted(ChoicesOf(1)[ret.choice].value, built[1].value)

\* the lowercased first characters of the values the rows of qs have for lookup
FirstChars(qs, lookup) == {LowerChar(cell(qs.model, pk, lookup)[1]) : pk \in qs.ids}

\* C18: the choices of an AlphabeticFilter over a text field are one per
\* distinct lowercased first character of the field's values, in ascending
\* order of the characters, and the count of a choice is the number of rows
\* whose value starts with its character in either case, which is the number
\* of rows the filter selects when it has the choice's value.
C18_AlphabeticCounts ==
    \A i \in DOMAIN built :
        (/\ HasChoices(i)
         /\ built[i].cls = "AlphabeticFilter"
         /\ Len(split__(built[i].lookup)) = 1
         /\ built[i].field.type = "CharField") =>
            /\ {ChoicesOf(i)[k].value.repr : k \in DOMAIN ChoicesOf(i)}
                   = {<<c>> : c \in FirstChars(built[i].qs, built[i].lookup)}
            /\ Len(ChoicesOf(i)) = Cardinality(FirstChars(built[i].qs, built[i].lookup))
            /\ \A k, l \in DOMAIN ChoicesOf(i) :
                   k < l => ord(ChoicesOf(i)[k].value.repr[1])
                                < ord(ChoicesOf(i)[l].value.repr[1])
            /\ \A k \in DOMAIN ChoicesOf(i) :
                   /\ ChoicesOf(i)[k].items_count
                          = Cardinality({pk \in built[i].qs.ids :
                                LowerChar(cell(built[i].qs.model, pk, built[i].lookup)[1])
                                    = ChoicesOf(i)[k].value.repr[1]})
                   /\ ChoicesOf(i)[k].items_count
                          = Cardinality(Filter_filter(
                                [built[i] EXCEPT !.value = ChoicesOf(i)[k].value.repr],
                                built[i].qs).ids)

\* C19: the choices of a filter are counted in the base queryset it was
\* given, restriction included, whatever value the request carries for it:
\* the count of a choice is the number of rows of the base queryset that have
\* the choice's value, and two filters that differ only by the value and
\* the active flag of their requests have the same choices, or raise the
\* same exception.
C19_ChoicesIgnoreRequest ==
    /\ \A i \in DOMAIN built :
          (HasChoices(i) /\ built[i].cls # "AlphabeticFilter") =>
              \A k \in DOMAIN ChoicesOf(i) :
                  ChoicesOf(i)[k].items_count
                      = Cardinality({pk \in built[i].qs.ids :
                            cell(built[i].qs.model, pk, built[i].lookup)
                                = ChoicesOf(i)[k].value.repr})
    /\ Len(built) = 2 =>
          /\ choices_f(built[1]).err = choices_f(built[2]).err
          /\ (HasChoices(1) /\ HasChoices(2)) => ChoicesOf(1) = ChoicesOf(2)

\* the choices of an active and of an inactive RelationFilter over a
\* restricted queryset were read: two choices, each counting one row
C19_Witness ==
    /\ HasChoices(1) /\ HasChoices(2)
    /\ built[1].cls = "RelationFilter"
    /\ built[1].active /\ ~built[2].active
    /\ built[1].qs.ids = {s_1, s_2}
    /\ Len(ChoicesOf(1)) = 2
    /\ ChoicesOf(1)[1].items_count = 1

(***************************************************************************)
(* render_to                                                               *)
(***************************************************************************)
s_foo_html == <<"f","o","o",".","h","t","m","l">>
s_bar_html == <<"b","a","r",".","h","t","m","l">>
s_dot_html == <<".","h","t","m","l">>
s_view_foo == <<"v","i","e","w","_","f","o","o">>
s_lambda == <<"<","l","a","m","b","d","a",">">>
s_ctx == <<"{","f","o","o","}">>
s_ctx2 == <<"{","b","a","r","}">>
s_ok == <<"o","k">>

\* a Python object: its type and what it holds, every element a string (a
\* dict held by another object is named by a string)
Object(type, elems) == [type |-> type, elems |-> elems]

\* the objects a view is called with and returns
TheRequest == Object("HttpRequest", <<>>)
TheSelf == Object("object", <<>>)
ThePk == Object("int", <<s_1>>)
NoneObject == Object("NoneType", <<>>)

\* find_request that takes the first argument for the request, whatever it is
find_request_unchecked(args) ==
    IF args # <<>> THEN [found |-> TRUE, request |-> args[1]]
    ELSE [found |-> TRUE, request |-> NoneObject]

\* the first HttpRequest among args
find_request(args) ==
    IF \E i \in DOMAIN args : args[i].type = "HttpRequest"
    THEN [found |-> TRUE,
          request |-> args[CHOOSE i \in DOMAIN args :
                               /\ args[i].type = "HttpRequest"
                               /\ \A j \in 1..(i - 1) : args[j].type # "HttpRequest"]]
    ELSE [found |-> FALSE, request |-> NoneObject]

\* render_to_response(template, context, RequestContext(request)): the call
\* as the template engine sees it, and the response it returns
render_to_response(tmpl, context, request) ==
    [call  |-> [template |-> tmpl, context |-> context, request |-> request],
     value |-> Object("HttpResponse", <<tmpl, context>>)]

\* pair_template that lets the decorator's template win over the pair's
pair_template_configured(template, output) ==
    IF Truthy(template) THEN template ELSE output.elems[2]

\* the template of a list or tuple result: output[1]
pair_template(template, output) == output.elems[2]

\* view_template that derives the name of an anonymous function too
view_template_any_name(template, func) ==
    IF Truthy(template) THEN [err |-> "none", tmpl |-> template]
    ELSE [err |-> "none", tmpl |-> func.name \o s_dot_html]

\* the template of a dict result: the decorator's, or the function's name
\* and '.html'
view_template(template, func) ==
    IF Truthy(template) THEN [err |-> "none", tmpl |-> template]
    ELSE IF func.name = s_lambda THEN [err |-> "TypeError", tmpl |-> <<>>]
    ELSE [err |-> "none", tmpl |-> func.name \o s_dot_html]

\* render_to(template)(func)(*args): the exception raised, the value
\* returned, whether func was called and the rendering calls made
wrapper(template, func, args) ==
    LET req    == find_request(args)
        output == func.output
        failed(e, invoked) ==
            [err |-> e, value |-> NoneObject, invoked |-> invoked, rendered |-> <<>>]
        rendering(r) ==
            [err |-> "none", value |-> r.value, invoked |-> TRUE, rendered |-> <<r.call>>]
    IN  IF ~req.found THEN failed("ValueError", FALSE)
        ELSE IF output.type \in {"list", "tuple"}
        THEN IF Len(output.elems) < 2 THEN failed("IndexError", TRUE)
             ELSE rendering(render_to_response(pair_template(template, output),
                                               output.elems[1], req.request))
        ELSE IF output.type = "dict"
        THEN LET t == view_template(template, func)
             IN  IF t.err # "none" THEN failed(t.err, TRUE)
                 ELSE rendering(render_to_response(t.tmpl, output.elems[1], req.request))
        ELSE [err |-> "none", value |-> output, invoked |-> TRUE, rendered |-> <<>>]

\* the templates given to render_to (None: left out)
Templates == {None, s_foo_html}

\* what the decorated views return
Outputs ==
    {Object("dict", <<s_ctx>>),
     Object("tuple", <<s_ctx, s_bar_html>>),
     Object("list", <<s_ctx, s_bar_html>>),
     Object("tuple", <<>>),
     Object("list", <<s_ctx>>),
     Object("tuple", <<s_ctx, s_bar_html, s_ctx2>>),
     Object("HttpResponse", <<s_bar_html, s_ctx>>),
     Object("str", <<s_ok>>),
     NoneObject}

\* the decorated views: a named function and a lambda
Views == {[name |-> n, output |-> o] : n \in {s_view_foo, s_lambda}, o \in Outputs}

\* the positional arguments the wrapper is called with
ArgLists == SeqsUpTo({TheRequest, TheSelf, ThePk}, 2)

InitRender ==
    /\ _cached_fields = <<>>
    /\ lists = <<>>
    /\ ret = [op |-> "start", value |-> None]
    /\ err = "none"
    /\ built = <<>>
    /\ render = <<>>
    /\ threads = <<>>

\* a module applies render_to(template) to a view
Decorate(template, func) ==
    /\ render = <<>>
    /\ render' = <<[template |-> template, func |-> func, calls |-> 0,
                    invoked |-> 0, rendered |-> <<>>]>>
    /\ ret' = [op |-> "render_to", value |-> None]
    /\ err' = "none"
    /\ UNCHANGED <<_cached_fields, lists, built, threads>>

\* the framework calls the decorated view
CallView(args) ==
    /\ Len(render) = 1
    /\ render[1].calls < MaxCalls
    /\ \E r \in {wrapper(render[1].template, render[1].func, args)} :
           /\ render' = <<[render[1] EXCEPT
                              !.calls = @ + 1,
                              !.invoked = IF r.invoked THEN @ + 1 ELSE @,
                              !.rendered = @ \o r.rendered]>>
           /\ ret' = [op |-> "wrapper", value |-> r.value, args |-> args,
                       invoked |-> r.invoked, rendered |-> r.rendered]
           /\ err' = r.err
    /\ UNCHANGED <<_cached_fields, lists, built, threads>>

NextRender ==
    \/ \E template \in Templates, func \in Views : Decorate(template, func)
    \/ \E args \in ArgLists : CallView(args)

SpecRender == InitRender /\ [][NextRender]_vars

\* the last call of the wrapper was given a request
WithRequest == ret.op = "wrapper" /\ find_request(ret.args).found

\* the view returns a sequence of two elements
ReturnsPair ==
    render[1].func.output.type \in {"list", "tuple"}
        /\ Len(render[1].func.output.elems) = 2

\* the view returns a mapping
ReturnsDict == render[1].func.output.type = "dict"

\* C14: called without a request among its positional arguments, the wrapper
\* raises the configuration error, does not call the view and renders nothing.
C14_NoRequestFails ==
    (ret.op = "wrapper" /\ \A i \in DOMAIN ret.args : ret.args[i].type # "HttpRequest") =>
        /\ err = "ValueError"
        /\ ~ret.invoked
        /\ ret.rendered = <<>>
        /\ render[1].invoked < render[1].calls

\* the wrapper was called with arguments, none of them a request
C14_Witness ==
    /\ ret.op = "wrapper"
    /\ Len(ret.args) = 2
    /\ \A i \in DOMAIN ret.args : ret.args[i].type # "HttpRequest"
    /\ err = "ValueError"
    /\ render[1].invoked = 0

\* C15: a call of the wrapper that renders makes one rendering call; for a
\* view that returns a pair its template is the second element and its
\* context the first, whatever template the decorator was given; for a view
\* that returns a mapping its template is the decorator's if one was given
\* and the name of the view followed by '.html' if not.
C15_TemplateChoice ==
    (ret.op = "wrapper" /\ ret.rendered # <<>>) =>
        /\ Len(ret.rendered) = 1
        /\ ReturnsPair =>
              /\ ret.rendered[1].template = render[1].func.output.elems[2]
              /\ ret.rendered[1].context = render[1].func.output.elems[1]
        /\ ReturnsDict =>
              /\ ret.rendered[1].context = render[1].func.output.elems[1]
              /\ ret.rendered[1].template =
                     IF render[1].template # None THEN render[1].template
                     ELSE render[1].func.name \o s_dot_html

\* a view that returns a pair rendered the pair's template although the
\* decorator was given another
C15_Witness ==
    /\ ret.op = "wrapper"
    /\ ReturnsPair
    /\ render[1].template = s_foo_html
    /\ Len(ret.rendered) = 1
    /\ ret.rendered[1].template = s_bar_html

\* C16: a value returned by the view that is neither a sequence of two
\* elements nor a mapping is returned by the wrapper as it is: nothing is
\* rendered and nothing raised.
C16_OtherPassesThrough ==
    (WithRequest /\ ~ReturnsPair /\ ~ReturnsDict) =>
        /\ err = "none"
        /\ ret.rendered = <<>>
        /\ ret.value = render[1].func.output

\* C17: an anonymous view that returns a mapping, decorated without a
\* template, raises the configuration error and renders nothing; decorated
\* with a template it renders that template.
C17_AnonymousNeedsTemplate ==
    (WithRequest /\ ReturnsDict /\ render[1].func.name = s_lambda) =>
        IF render[1].template = None
        THEN err = "TypeError" /\ ret.rendered = <<>>
        ELSE /\ err = "none"
             /\ Len(ret.rendered) = 1
             /\ ret.rendered[1].template = render[1].template

\* an anonymous view that returns a mapping was called with a request, the
\* decorator without a template
C17_Witness ==
    /\ WithRequest
    /\ ReturnsDict
    /\ render[1].func.name = s_lambda
    /\ render[1].template = None
    /\ err = "TypeError"

(***************************************************************************)
(* Filter.resolve_field called by several threads of the process.  A       *)
(* thread first evaluates "lookup not in Filter._cached_fields" and, when   *)
(* it is not, asks the model for the field; in a later step it calls       *)
(* setdefault on the dict, which the interpreter runs as one step.          *)
(***************************************************************************)
\* d[key] = default, whatever d holds for key
dict_assign(d, key, default) ==
    [dict |-> (key :> default) @@ d, value |-> default]

\* d.setdefault(key, default): the dict afterwards and the value returned
setdefault(d, key, default) ==
    IF key \in DOMAIN d THEN [dict |-> d, value |-> d[key]]
    ELSE [dict |-> (key :> default) @@ d, value |-> default]

\* None where a field is expected (f = None), in the shape of a field
NoField == Field("None", <<>>, "None", "None")

\* the first statements of resolve_field: f, and the exception get_field raises
resolve_field_lookup(cache, qs, lookup) ==
    IF lookup \in DOMAIN cache THEN [err |-> "none", f |-> NoField]
    ELSE IF get_field_raises(qs.model, split__(lookup)[1])
    THEN [err |-> "FieldDoesNotExist", f |-> NoField]
    ELSE [err |-> "none", f |-> get_field(qs.model, split__(lookup)[1])]

\* a thread outside resolve_field
Idle ==
    [pc |-> "idle", model |-> "None", lookup |-> <<>>, f |-> NoField, value |-> NoField]

InitThreads ==
    /\ _cached_fields = <<>>
    /\ lists = <<>>
    /\ ret = [op |-> "start", value |-> None]
    /\ err = "none"
    /\ built = <<>>
    /\ render = <<>>
    /\ threads = [t \in 1..NumThreads |-> Idle]

\* thread t calls resolve_field(model.objects.all(), lookup) and runs it up
\* to the call of setdefault
Lookup(t, model, lookup) ==
    /\ threads[t].pc = "idle"
    /\ \E r \in {resolve_field_lookup(_cached_fields, objects_all(model), lookup)} :
           threads' = [threads EXCEPT ![t] =
                          [pc     |-> IF r.err = "none" THEN "looked" ELSE "raised",
                           model  |-> model,
                           lookup |-> lookup,
                           f      |-> r.f,
                           value  |-> NoField]]
    /\ UNCHANGED <<_cached_fields, lists, ret, err, built, render>>

\* thread t runs Filter._cached_fields.setdefault(lookup, f) and returns
Store(t) ==
    /\ threads[t].pc = "looked"
    /\ \E r \in {setdefault(_cached_fields, threads[t].lookup, threads[t].f)} :
           /\ _cached_fields' = r.dict
           /\ threads' = [threads EXCEPT ![t].pc = "returned", ![t].value = r.value]
    /\ UNCHANGED <<lists, ret, err, built, render>>

\* the caller of thread t goes on with what resolve_field returned or raised
Leave(t) ==
    /\ threads[t].pc \in {"returned", "raised"}
    /\ threads' = [threads EXCEPT ![t] = Idle]
    /\ UNCHANGED <<_cached_fields, lists, ret, err, built, render>>

NextThreads ==
    \/ \E t \in 1..NumThreads, model \in {"Story", "Comment"}, lookup \in Lookups :
           Lookup(t, model, lookup)
    \/ \E t \in 1..NumThreads : Store(t)
    \/ \E t \in 1..NumThreads : Leave(t)

SpecThreads == InitThreads /\ [][NextThreads]_vars

\* every entry of the cache is a field, and a call that has returned
\* returned the entry the cache holds for its lookup
C20_ReturnsStored ==
    /\ \A l \in DOMAIN _cached_fields : _cached_fields[l] # NoField
    /\ \A t \in DOMAIN threads :
          threads[t].pc = "returned" =>
              /\ threads[t].lookup \in DOMAIN _cached_fields
              /\ threads[t].value = _cached_fields[threads[t].lookup]

\* a step keeps every entry of the cache as it is, and a step in which a
\* call raises adds none
C20_EntriesAreKept ==
    /\ \A l \in DOMAIN _cached_fields :
          l \in DOMAIN _cached_fields' /\ _cached_fields'[l] = _cached_fields[l]
    /\ \A t \in DOMAIN threads :
          (threads[t].pc # "raised" /\ threads'[t].pc = "raised") =>
              _cached_fields' = _cached_fields

\* C20: under every interleaving of the steps of concurrent resolve_field
\* calls, an entry of the cache, once present, is never removed or
\* replaced, a call that raises adds no entry, and every call that returns
\* returns the entry stored for its lookup, so all callers of one lookup
\* get the same field.
C20_CacheIsStable == []C20_ReturnsStored /\ [][C20_EntriesAreKept]_vars

\* two threads looked one lookup up in the empty cache, each for its own
\* model; both have returned the field the first of them stored
C20_Witness ==
    /\ threads[1].pc = "returned" /\ threads[2].pc = "returned"
    /\ threads[1].lookup = threads[2].lookup
    /\ threads[1].model # threads[2].model
    /\ threads[1].f # NoField /\ threads[2].f # NoField
    /\ threads[1].value = threads[2].value

\* C21: every filter of a FilterList has as its value what the request
\* holds for its parameter (None when the request does not hold the
\* parameter), whether the filter is active or not; an active filter has a
\* non-empty value, and a filter that single mode leaves inactive keeps the
\* value of the request.
C21_ValueIsRequestValue ==
    \A k \in DOMAIN lists : \A i \in DOMAIN lists[k].items :
        /\ lists[k].items[i].value =
               IF lists[k].items[i].param \in DOMAIN lists[k].request.GET
               THEN lists[k].request.GET[lists[k].items[i].param]
               ELSE None
        /\ lists[k].items[i].active => Truthy(lists[k].items[i].value)

\* a single-mode FilterList of a request with values for both facets: the
\* second filter is inactive and has the value of the request
C21_Witness ==
    /\ Len(lists) = 1
    /\ Len(lists[1].items) = 2
    /\ lists[1].single
    /\ lists[1].items[1].active
    /\ ~lists[1].items[2].active
    /\ lists[1].items[2].value = s_s
    /\ lists[1].request.GET[lists[1].items[2].param] = s_s

=============================================================================
